---- MODULE Spec2Model ----
(***************************************************************************)
(* A model of the simpleforce client (force.go): the session state of a    *)
(* Client, the calls a program makes on it one after the other, and the    *)
(* remote system and the local file system as the environment.             *)
(*                                                                         *)
(* Go strings are sequences of one-character strings, so that prefix       *)
(* tests, formatting, escaping and URL parsing are computed character by   *)
(* character as the library routines compute them.                         *)
(***************************************************************************)
EXTENDS Integers, Sequences, FiniteSets, TLC

VARIABLES client, fs, ret

vars == <<client, fs, ret>>

(***************************************************************************)
(* String literals of force.go.                                            *)
(***************************************************************************)
\* force.go:21
DefaultAPIVersion ==
  <<"5", "4", ".", "0">>
\* force.go:22
DefaultClientID ==
  <<"s", "i", "m", "p", "l", "e", "f", "o", "r", "c", "e">>
\* force.go:23
DefaultURL ==
  <<"h", "t", "t", "p", "s", ":", "/", "/", "l", "o", "g", "i", "n", ".", "s",
  "a", "l", "e", "s", "f", "o", "r", "c", "e", ".", "c", "o", "m">>
\* force.go:76  the prefix Query tests q for
continuationPrefix ==
  <<"/", "s", "e", "r", "v", "i", "c", "e", "s", "/", "d", "a", "t", "a">>
\* force.go:81
queryFormat ==
  <<"%", "s", "/", "s", "e", "r", "v", "i", "c", "e", "s", "/", "d", "a", "t",
  "a", "/", "v", "%", "s", "/", "q", "u", "e", "r", "y", "?", "q", "=", "%",
  "s">>
\* force.go:84
queryWord ==
  <<"q", "u", "e", "r", "y">>
\* force.go:84
toolingQueryWord ==
  <<"t", "o", "o", "l", "i", "n", "g", "/", "q", "u", "e", "r", "y">>
\* force.go:78, 237, 446, 487
concatFormat ==
  <<"%", "s", "%", "s">>
\* force.go:115
apexFormat ==
  <<"%", "s", "/", "%", "s">>
\* force.go:169
soapURLFormat ==
  <<"%", "s", "/", "s", "e", "r", "v", "i", "c", "e", "s", "/", "S", "o", "a",
  "p", "/", "u", "/", "%", "s">>
\* force.go:244, 279
bearerFormat ==
  <<"B", "e", "a", "r", "e", "r", " ", "%", "s">>
\* force.go:449, 492
bearerPrefix ==
  <<"B", "e", "a", "r", "e", "r", " ">>
\* force.go:304
makeURLFormat ==
  <<"%", "s", "/", "s", "e", "r", "v", "i", "c", "e", "s", "/", "d", "a", "t",
  "a", "/", "v", "%", "s", "/", "%", "s">>
\* force.go:386
contentDocumentQueryFormat ==
  <<"S", "E", "L", "E", "C", "T", " ", "C", "o", "n", "t", "e", "n", "t", "D",
  "o", "c", "u", "m", "e", "n", "t", "I", "d", " ", "F", "R", "O", "M", " ",
  "C", "o", "n", "t", "e", "n", "t", "V", "e", "r", "s", "i", "o", "n", " ",
  "W", "H", "E", "R", "E", " ", "I", "d", " ", "=", " ", "'", "%", "s", "'">>
\* force.go:414
versionDataFormat ==
  <<"/", "s", "e", "r", "v", "i", "c", "e", "s", "/", "d", "a", "t", "a", "/",
  "v", "%", "s", "/", "s", "o", "b", "j", "e", "c", "t", "s", "/", "C", "o",
  "n", "t", "e", "n", "t", "V", "e", "r", "s", "i", "o", "n", "/", "%", "s",
  "/", "V", "e", "r", "s", "i", "o", "n", "D", "a", "t", "a">>
\* force.go:419, 439
attachmentBodyFormat ==
  <<"/", "s", "e", "r", "v", "i", "c", "e", "s", "/", "d", "a", "t", "a", "/",
  "v", "%", "s", "/", "s", "o", "b", "j", "e", "c", "t", "s", "/", "A", "t",
  "t", "a", "c", "h", "m", "e", "n", "t", "/", "%", "s", "/", "B", "o", "d",
  "y">>
\* force.go:485
sobjectsFormat ==
  <<"/", "s", "e", "r", "v", "i", "c", "e", "s", "/", "d", "a", "t", "a", "/",
  "v", "%", "s", "/", "s", "o", "b", "j", "e", "c", "t", "s">>
\* force.go:478
hostFormat ==
  <<"%", "s", ":", "/", "/", "%", "s">>
\* force.go:480
parseFailure ==
  <<"F", "a", "i", "l", "e", "d", " ", "t", "o", " ", "p", "a", "r", "s", "e",
  " ", "U", "R", "L", " ", "i", "n", "p", "u", "t">>
\* spec 4.4: POST to .../sobjects/<type>
createPath ==
  <<"s", "o", "b", "j", "e", "c", "t", "s", "/", "C", "o", "n", "t", "e", "n",
  "t", "V", "e", "r", "s", "i", "o", "n">>


(***************************************************************************)
(* Character classes and the string routines force.go calls.               *)
(***************************************************************************)
Letter ==
  {"a", "b", "c", "d", "e", "f", "g", "h", "i", "j", "k", "l", "m", "n", "o",
  "p", "q", "r", "s", "t", "u", "v", "w", "x", "y", "z", "A", "B", "C", "D",
  "E", "F", "G", "H", "I", "J", "K", "L", "M", "N", "O", "P", "Q", "R", "S",
  "T", "U", "V", "W", "X", "Y", "Z"}

Digit ==
  {"0", "1", "2", "3", "4", "5", "6", "7", "8", "9"}


\* The suffix of s from its i-th character on.
From(s, i) == SubSeq(s, i, Len(s))

\* strings.HasPrefix
HasPrefix(s, prefix) ==
  Len(s) >= Len(prefix) /\ SubSeq(s, 1, Len(prefix)) = prefix

\* strings.HasSuffix
HasSuffix(s, suffix) ==
  Len(s) >= Len(suffix) /\ From(s, Len(s) - Len(suffix) + 1) = suffix

\* strings.Replace(s, old, new, -1) for a non-empty old: every
\* non-overlapping occurrence, left to right.
RECURSIVE Replace(_, _, _)
Replace(s, old, new) ==
  IF s = <<>> THEN <<>>
  ELSE IF HasPrefix(s, old)
       THEN new \o Replace(From(s, Len(old) + 1), old, new)
       ELSE <<Head(s)>> \o Replace(Tail(s), old, new)

\* strings.TrimRight(s, cutset) for a one-character cutset.
RECURSIVE TrimRight(_, _)
TrimRight(s, c) ==
  IF s # <<>> /\ s[Len(s)] = c
  THEN TrimRight(SubSeq(s, 1, Len(s) - 1), c)
  ELSE s

\* What fmt prints for a %s verb that has no operand left.
missingOperand ==
  <<"%", "!", "s", "(", "M", "I", "S", "S", "I", "N", "G", ")">>

\* fmt.Sprintf for formats whose only verb is %s, as are all of force.go's
\* formats over strings; args is the sequence of operands.
RECURSIVE Sprintf(_, _)
Sprintf(format, args) ==
  IF format = <<>> THEN <<>>
  ELSE IF Len(format) >= 2 /\ format[1] = "%" /\ format[2] = "s"
       THEN IF args = <<>>
            THEN missingOperand \o Sprintf(From(format, 3), args)
            ELSE Head(args) \o Sprintf(From(format, 3), Tail(args))
       ELSE <<Head(format)>> \o Sprintf(Tail(format), args)

\* The byte of each character of the modelled strings that is not a letter
\* or a digit.
Ord(c) ==
  CASE c = " " -> 32 [] c = "!" -> 33 [] c = "%" -> 37 [] c = "&" -> 38
    [] c = "'" -> 39 [] c = "(" -> 40 [] c = ")" -> 41 [] c = "+" -> 43
    [] c = "," -> 44 [] c = "-" -> 45 [] c = "." -> 46 [] c = "/" -> 47
    [] c = ":" -> 58 [] c = "=" -> 61 [] c = "?" -> 63 [] c = "_" -> 95
    [] c = "~" -> 126

upperhex ==
  <<"0", "1", "2", "3", "4", "5", "6", "7", "8", "9",
    "A", "B", "C", "D", "E", "F">>

\* net/url shouldEscape(c, encodeQueryComponent): letters, digits and
\* - _ . ~ are kept, every other byte is escaped.
shouldEscape(c) == c \notin (Letter \cup Digit \cup {"-", "_", ".", "~"})

\* url.QueryEscape: a space becomes +, an escaped byte %XX in upper-case hex.
RECURSIVE QueryEscape(_)
QueryEscape(s) ==
  IF s = <<>> THEN <<>>
  ELSE LET c == Head(s)
       IN  (IF c = " " THEN <<"+">>
            ELSE IF shouldEscape(c)
                 THEN <<"%", upperhex[(Ord(c) \div 16) + 1],
                        upperhex[(Ord(c) % 16) + 1]>>
                 ELSE <<c>>)
           \o QueryEscape(Tail(s))

\* The scan of net/url getScheme from position i: the first position whose
\* character is not a letter nor (after the first place) a digit or + - .,
\* and 0 when the scan reaches the end.
RECURSIVE schemeEnd(_, _)
schemeEnd(rawURL, i) ==
  IF i > Len(rawURL) THEN 0
  ELSE IF \/ rawURL[i] \in Letter
          \/ i > 1 /\ rawURL[i] \in (Digit \cup {"+", "-", "."})
       THEN schemeEnd(rawURL, i + 1)
       ELSE i

\* net/url getScheme: the scheme is what stands before a colon that ends
\* the scan; a colon in first place is an error, and any other end of the
\* scan means there is no scheme.
getScheme(rawURL) ==
  LET i == schemeEnd(rawURL, 1)
  IN  IF i = 0 \/ rawURL[i] # ":"
      THEN [scheme |-> <<>>, rest |-> rawURL, err |-> FALSE]
      ELSE IF i = 1
      THEN [scheme |-> <<>>, rest |-> <<>>, err |-> TRUE]
      ELSE [scheme |-> SubSeq(rawURL, 1, i - 1),
            rest |-> From(rawURL, i + 1), err |-> FALSE]

\* strings.Index for a one-character substr, counted from 1: 0 when s does
\* not contain it.
RECURSIVE indexFrom(_, _, _)
indexFrom(s, c, i) ==
  IF i > Len(s) THEN 0
  ELSE IF s[i] = c THEN i
  ELSE indexFrom(s, c, i + 1)

Index(s, c) == indexFrom(s, c, 1)

\* url.Parse on the modelled strings (lower-case schemes, no fragment, no
\* user info, no port, no escape in the path): the scheme, then the query
\* cut at the first ?, then an authority after // up to the next /.
Parse(rawURL) ==
  LET s == getScheme(rawURL)
      q == Index(s.rest, "?")
      rest == IF q = 0 THEN s.rest ELSE SubSeq(s.rest, 1, q - 1)
      bad == [err |-> TRUE, scheme |-> <<>>, host |-> <<>>, path |-> <<>>]
  IN  IF s.err THEN bad
      ELSE IF ~HasPrefix(rest, <<"/">>)
      THEN IF s.scheme # <<>>
           THEN [err |-> FALSE, scheme |-> s.scheme, host |-> <<>>,
                 path |-> <<>>]
           ELSE LET slash == Index(rest, "/")
                    segment == IF slash = 0 THEN rest
                               ELSE SubSeq(rest, 1, slash - 1)
                IN  IF Index(segment, ":") # 0 THEN bad
                    ELSE [err |-> FALSE, scheme |-> <<>>, host |-> <<>>,
                          path |-> rest]
      ELSE IF HasPrefix(rest, <<"/", "/">>)
              /\ (s.scheme # <<>> \/ ~HasPrefix(rest, <<"/", "/", "/">>))
      THEN LET authority == From(rest, 3)
               slash == Index(authority, "/")
           IN  [err |-> FALSE, scheme |-> s.scheme,
                host |-> IF slash = 0 THEN authority
                         ELSE SubSeq(authority, 1, slash - 1),
                path |-> IF slash = 0 THEN <<>> ELSE From(authority, slash)]
      ELSE [err |-> FALSE, scheme |-> s.scheme, host |-> <<>>, path |-> rest]

\* parseHost (force.go:475)
parseHost(input) ==
  LET parsed == Parse(input)
  IN  IF ~parsed.err THEN Sprintf(hostFormat, <<parsed.scheme, parsed.host>>)
      ELSE parseFailure

(***************************************************************************)
(* Errors.  nil is Nil; every other value is a non-nil error.              *)
(***************************************************************************)
Nil == [kind |-> "nil"]

\* The sentinel for "not authenticated".
ErrAuthentication == [kind |-> "ErrAuthentication"]

\* http.NewRequest rejected the URL.
URLError == [kind |-> "url"]

\* The transport failed: in Do before a status was received, or while the
\* body was being read.
TransportError(where) == [kind |-> "transport", at |-> where]

\* xml.Unmarshal or json.Unmarshal rejected the data.
DecodeError == [kind |-> "decode"]

\* os.ReadFile, os.Create or a write to the file failed.
FileError(call) == [kind |-> "file", call |-> call]

\* fmt.Errorf(text, ...): an untyped error made from a format.
ErrorString(text, detail) ==
  [kind |-> "errorString", text |-> text, detail |-> detail]

\* A nil pointer dereference: the call panics instead of returning.
Panic == [kind |-> "panic"]

\* The Error Mapper: the first entry of the platform's JSON error envelope
\* with the status, else the status and the raw body.
ParseSalesforceError(statusCode, body) ==
  IF body.t = "jsonError"
  THEN [kind |-> "SalesforceError", status |-> statusCode,
        code |-> body.errorCode, message |-> body.message,
        raw |-> [t |-> "none"]]
  ELSE [kind |-> "SalesforceError", status |-> statusCode,
        code |-> "", message |-> "", raw |-> body]

(***************************************************************************)
(* The environment: what the caller passes, what the remote system         *)
(* answers, what the local file system does.                               *)
(***************************************************************************)
\* the query of the spec's scenario
soqlCase ==
  <<"S", "E", "L", "E", "C", "T", " ", "I", "d", " ", "F", "R", "O", "M", " ",
  "C", "a", "s", "e", " ", "L", "I", "M", "I", "T", " ", "1">>
\* reserved characters, a quote and a percent sign
soqlLike ==
  <<"a", "+", "b", "=", "'", "%", "'">>
\* a nextRecordsUrl of an earlier page
nextRecordsPath ==
  <<"/", "s", "e", "r", "v", "i", "c", "e", "s", "/", "d", "a", "t", "a", "/",
  "v", "5", "4", ".", "0", "/", "q", "u", "e", "r", "y", "/", "0", "1", "g",
  "-", "2", "0", "0", "0">>
\* one character short of the continuation prefix
nearPrefix ==
  <<"/", "s", "e", "r", "v", "i", "c", "e", "s", "/", "d", "a", "t">>
\* a custom REST path, relative to the domain
apexPath ==
  <<"s", "e", "r", "v", "i", "c", "e", "s", "/", "a", "p", "e", "x", "r", "e",
  "s", "t", "/", "x">>
\* an instance endpoint
instanceA ==
  <<"h", "t", "t", "p", "s", ":", "/", "/", "n", "a", "1", ".", "s", "f", ".",
  "c", "o", "m">>
\* the same endpoint written with a trailing slash
instanceSlash ==
  <<"h", "t", "t", "p", "s", ":", "/", "/", "n", "a", "1", ".", "s", "f", ".",
  "c", "o", "m", "/">>
\* a serverUrl of a login response
serverUrlA ==
  <<"h", "t", "t", "p", "s", ":", "/", "/", "n", "a", "1", ".", "s", "f", ".",
  "c", "o", "m", "/", "s", "e", "r", "v", "i", "c", "e", "s", "/", "S", "o",
  "a", "p", "/", "u", "/", "5", "4", ".", "0">>
\* a serverUrl url.Parse rejects
serverUrlBad ==
  <<":", "b", "a", "d">>
\* session tokens
sidA ==
  <<"A", "1">>
sidB ==
  <<"B", "2">>
sidC ==
  <<"C", "3">>
\* user ids
userA ==
  <<"0", "0", "5", "A">>
userB ==
  <<"0", "0", "5", "B">>
\* a ContentVersion id
versionId ==
  <<"0", "6", "8", "A">>
\* a ContentDocument id
documentId ==
  <<"0", "6", "9", "A">>
\* an Attachment id and the id of a parent record
parent001 ==
  <<"0", "0", "1", "A">>
attachment00P ==
  <<"0", "0", "P", "A">>

\* The largest number of records in one page of a modelled response.
MaxRecords == 2

\* JSON values of a record's fields.
JString(s) == [t |-> "string", v |-> s]

JNull == [t |-> "null"]

\* The JSON objects a page's records are drawn from: with the document
\* id, and with that field null.
RecordPool ==
  {[Id |-> JString(versionId), ContentDocumentId |-> JString(documentId)],
   [Id |-> JString(versionId), ContentDocumentId |-> JNull]}

Pages == UNION {[1..n -> RecordPool] : n \in 0..MaxRecords}

\* Response bodies: plain text, the platform's JSON error envelope, a JSON
\* object (a query page, or the answer to a create with its id), and the
\* SOAP envelope of a login response (an absent element reads as "").
TextBody == [t |-> "text"]

ErrorBody ==
  [t |-> "jsonError", errorCode |-> "INVALID_FIELD", message |-> "bad field"]

ObjectBodies ==
  {[t |-> "jsonObject", id |-> <<>>, records |-> p] : p \in Pages}
  \cup {[t |-> "jsonObject", id |-> versionId, records |-> <<>>]}

Envelope(sessionId, serverUrl, userId, userName, userEmail, userFullName) ==
  [t |-> "xml", sessionId |-> sessionId, serverUrl |-> serverUrl,
   userId |-> userId, userName |-> userName, userEmail |-> userEmail,
   userFullName |-> userFullName]

\* A login result; one whose serverUrl does not parse; one with no
\* serverUrl element; an envelope with no result in it.
GoodEnvelope ==
  Envelope(sidA, serverUrlA, userA, <<"a", "n", "n">>, <<"a", "@", "x">>,
           <<"A", "n", "n">>)

EnvelopeBodies ==
  {GoodEnvelope,
   Envelope(sidB, serverUrlBad, userB, <<"b", "o", "b">>,
            <<"b", "@", "x">>, <<"B", "o", "b">>),
   Envelope(sidB, <<>>, userB, <<"b", "o", "b">>,
            <<"b", "@", "x">>, <<"B", "o", "b">>),
   Envelope(<<>>, <<>>, <<>>, <<>>, <<>>, <<>>)}

Bodies == {TextBody, ErrorBody} \cup ObjectBodies \cup EnvelopeBodies

\* Final statuses a caller of http.Client.Do can see: both ends of the 2xx
\* range, and two outside it.
SuccessStatuses == {200, 299}

FailureStatuses == {300, 401}

\* What the remote system can do with a request: fail it in transit, or
\* answer with a status and a body; broken: the body stream fails before
\* its end.  A 2xx answer carries any body, another answer a text, the
\* error envelope or a login envelope.
Response(status, body, broken) ==
  [t |-> "response", status |-> status, body |-> body, broken |-> broken]

Answers ==
  {[t |-> "error"]}
  \cup {Response(s, b, FALSE) : s \in SuccessStatuses, b \in Bodies}
  \cup {Response(s, b, FALSE) :
          s \in FailureStatuses,
          b \in {TextBody, ErrorBody, GoodEnvelope}}
  \cup {Response(s, TextBody, TRUE) : s \in {200, 401}}

\* The bytes a reader gets from a response's body: all of it, or a part.
ReadBody(resp) == IF resp.broken THEN [t |-> "truncated"] ELSE resp.body

\* http.NewRequest: the request holds the parsed URL; it fails exactly
\* when url.Parse rejects the URL (the methods of the modelled calls are
\* valid), and the request is then nil.
NewRequest(method, url) ==
  LET u == Parse(url)
  IN  [err |-> IF u.err THEN URLError ELSE Nil,
       req |-> [method |-> method, url |-> url, URL |-> u, Header |-> <<>>]]

\* The request with the headers a call adds to it.
WithHeader(req, header) == [req EXCEPT !.Header = header]

\* http.Client.Do: a request whose URL has no http(s) scheme or no host
\* fails in the transport, whatever the remote system would answer.
Do(req, answer) ==
  IF req.URL.scheme \in {<<"h", "t", "t", "p">>, <<"h", "t", "t", "p", "s">>}
     /\ req.URL.host # <<>>
  THEN answer
  ELSE [t |-> "error"]

\* One round trip as the network saw it.
Exchange(req, resp) == [req |-> req, resp |-> resp]

NoData == [t |-> "none"]

(***************************************************************************)
(* The Client and its operations.  Each operation is an operator from the  *)
(* Client, the call's arguments and the environment's choices to the       *)
(* call's outcome: what it returns, the round trips it made (net), and     *)
(* the Client or the file it leaves behind.                                *)
(***************************************************************************)

\* The one Client of the model, as the target of a record's back-reference;
\* NoClient is the nil pointer.
ClientRef == "client"

NoClient == "nil"

\* NewClient: the session fields are empty, the flag is off, and one
\* trailing slash is cut from the base URL.
NewClient(url, clientID, apiVersion) ==
  [sessionID |-> <<>>,
   user |-> [id |-> <<>>, name |-> <<>>, fullName |-> <<>>, email |-> <<>>],
   clientID |-> clientID,
   apiVersion |-> apiVersion,
   baseURL |-> IF HasSuffix(url, <<"/">>) THEN SubSeq(url, 1, Len(url) - 1)
               ELSE url,
   instanceURL |-> <<>>,
   useToolingAPI |-> FALSE]

GetSid == client.sessionID

GetLoc == client.instanceURL

\* SetSidLoc with the assignment of the instance endpoint left out.
SetSidLocDropsLoc(c, sid, loc) == [c EXCEPT !.sessionID = sid]

SetSidLoc(c, sid, loc) == [c EXCEPT !.sessionID = sid, !.instanceURL = loc]

isLoggedIn(c) == c.sessionID # <<>>

\* A record and its accessors: absent fields and fields of another type
\* read as the zero value.
setClient(obj, ref) == [obj EXCEPT !.client = ref]

StringField(obj, key) ==
  IF key \in DOMAIN obj.fields /\ obj.fields[key].t = "string"
  THEN obj.fields[key].v
  ELSE <<>>

ID(obj) == StringField(obj, "Id")

NoObject == [t |-> "nil"]

NoResult == [t |-> "nil"]

\* json.Unmarshal into a QueryResult: a JSON object decodes, its records
\* with no Client attached; anything else is an error.
jsonUnmarshal(data) ==
  IF data.t = "jsonObject"
  THEN [err |-> Nil,
        value |-> [Records |-> [i \in 1..Len(data.records) |->
                     [fields |-> data.records[i], client |-> NoClient]]]]
  ELSE [err |-> DecodeError, value |-> NoResult]

\* xml.Unmarshal into the loginResponse struct.
xmlUnmarshal(data) ==
  IF data.t = "xml"
  THEN [err |-> Nil, SessionID |-> data.sessionId,
        ServerURL |-> data.serverUrl, UserID |-> data.userId,
        UserEmail |-> data.userEmail, UserFullName |-> data.userFullName,
        UserName |-> data.userName]
  ELSE [err |-> DecodeError]

\* The loop over result.Records stopping one record early.
attachClientButLast(records, ref) ==
  [idx \in 1..Len(records) |->
     IF idx < Len(records) THEN setClient(records[idx], ref)
     ELSE records[idx]]

\* The loop of Query and QueryMore over result.Records.
attachClient(records, ref) ==
  [idx \in 1..Len(records) |-> setClient(records[idx], ref)]

httpRequest(c, method, url, answer) ==
  LET respond(net, resp) ==
        IF resp.t = "error"
        THEN [data |-> NoData, err |-> TransportError("do"), net |-> net]
        ELSE IF resp.status < 200 \/ resp.status > 299
        THEN [data |-> NoData,
              err |-> ParseSalesforceError(resp.status, ReadBody(resp)),
              net |-> net]
        ELSE [data |-> ReadBody(resp),
              err |-> IF resp.broken THEN TransportError("body") ELSE Nil,
              net |-> net]
      exchange(req, resp) == respond(<<Exchange(req, resp)>>, resp)
      send(req) == exchange(req, Do(req, answer))
      start(made) ==
        IF made.err # Nil
        THEN [data |-> NoData, err |-> made.err, net |-> <<>>]
        ELSE send(WithHeader(made.req,
                    [Authorization |-> Sprintf(bearerFormat, <<c.sessionID>>),
                     ContentType |-> "application/json"]))
  IN  start(NewRequest(method, url))

\* The URL of Query with the SOQL string put in as it is.
queryURLUnescaped(c, q) ==
  IF HasPrefix(q, continuationPrefix)
  THEN Sprintf(concatFormat, <<c.instanceURL, q>>)
  ELSE LET formatString ==
             IF c.useToolingAPI
             THEN Replace(queryFormat, queryWord, toolingQueryWord)
             ELSE queryFormat
       IN  Sprintf(formatString, <<c.instanceURL, c.apiVersion, q>>)

\* The URL Query asks for.
queryURL(c, q) ==
  IF HasPrefix(q, continuationPrefix)
  THEN Sprintf(concatFormat, <<c.instanceURL, q>>)
  ELSE LET formatString ==
             IF c.useToolingAPI
             THEN Replace(queryFormat, queryWord, toolingQueryWord)
             ELSE queryFormat
       IN  Sprintf(formatString,
                   <<c.instanceURL, c.apiVersion, QueryEscape(q)>>)

\* What Query and QueryMore do with the bytes of a 2xx answer.
queryResult(data, net) ==
  LET decorate(decoded) ==
        IF decoded.err # Nil
        THEN [result |-> NoResult, err |-> decoded.err, net |-> net]
        ELSE [result |-> [Records |->
                           attachClient(decoded.value.Records, ClientRef)],
              err |-> Nil, net |-> net]
  IN  decorate(jsonUnmarshal(data))

Query(c, q, answer) ==
  LET finish(r) ==
        IF r.err # Nil
        THEN [result |-> NoResult, err |-> r.err, net |-> r.net]
        ELSE queryResult(r.data, r.net)
  IN  IF ~isLoggedIn(c)
      THEN [result |-> NoResult, err |-> ErrAuthentication, net |-> <<>>]
      ELSE finish(httpRequest(c, "GET", queryURL(c, q), answer))

ApexREST(c, method, path, answer) ==
  IF ~isLoggedIn(c)
  THEN [data |-> NoData, err |-> ErrAuthentication, net |-> <<>>]
  ELSE httpRequest(c, method, Sprintf(apexFormat, <<c.instanceURL, path>>),
                   answer)

\* The session fields stored from the decoded struct before the parse
\* error is looked at; a struct that did not decode holds zero values.
loginStoreUnchecked(c, loginResponse, net) ==
  LET field(name) ==
        IF name \in DOMAIN loginResponse THEN loginResponse[name] ELSE <<>>
  IN  [client |-> [c EXCEPT
         !.sessionID = field("SessionID"),
         !.instanceURL = parseHost(field("ServerURL")),
         !.user = [id |-> field("UserID"), name |-> field("UserName"),
                   fullName |-> field("UserFullName"),
                   email |-> field("UserEmail")]],
       err |-> loginResponse.err, net |-> net]

\* LoginPassword from xml.Unmarshal on: a parse error is returned, else
\* the session fields are stored.
loginStore(c, loginResponse, net) ==
  IF loginResponse.err # Nil
  THEN [client |-> c, err |-> loginResponse.err, net |-> net]
  ELSE [client |-> [c EXCEPT
          !.sessionID = loginResponse.SessionID,
          !.instanceURL = parseHost(loginResponse.ServerURL),
          !.user = [id |-> loginResponse.UserID,
                    name |-> loginResponse.UserName,
                    fullName |-> loginResponse.UserFullName,
                    email |-> loginResponse.UserEmail]],
        err |-> Nil, net |-> net]

LoginPassword(c, answer) ==
  LET respond(net, resp) ==
        IF resp.t = "error"
        THEN [client |-> c, err |-> TransportError("do"), net |-> net]
        ELSE IF resp.status # 200
        THEN [client |-> c,
              err |-> ParseSalesforceError(resp.status, ReadBody(resp)),
              net |-> net]
        ELSE loginStore(c, xmlUnmarshal(ReadBody(resp)), net)
      exchange(req, resp) == respond(<<Exchange(req, resp)>>, resp)
      send(req) == exchange(req, Do(req, answer))
      start(made) ==
        IF made.err # Nil
        THEN [client |-> c, err |-> made.err, net |-> <<>>]
        ELSE send(WithHeader(made.req,
                    [ContentType |-> "text/xml", charset |-> "UTF-8",
                     SOAPAction |-> "login"]))
  IN  start(NewRequest("POST",
                       Sprintf(soapURLFormat, <<c.baseURL, c.apiVersion>>)))

QueryMore(c, nextRecordsURL, answer) ==
  LET respond(net, resp) ==
        IF resp.t = "error"
        THEN [result |-> NoResult, err |-> TransportError("do"), net |-> net]
        ELSE IF resp.status < 200 \/ resp.status > 299
        THEN [result |-> NoResult,
              err |-> ErrorString("QueryMore failed with status: %d",
                                  resp.status),
              net |-> net]
        ELSE IF resp.broken
        THEN [result |-> NoResult, err |-> TransportError("body"),
              net |-> net]
        ELSE queryResult(resp.body, net)
      exchange(req, resp) == respond(<<Exchange(req, resp)>>, resp)
      send(req) == exchange(req, Do(req, answer))
      start(made) ==
        IF made.err # Nil
        THEN [result |-> NoResult, err |-> made.err, net |-> <<>>]
        ELSE send(WithHeader(made.req,
                    [Authorization |-> Sprintf(bearerFormat, <<c.sessionID>>),
                     ContentType |-> "application/json"]))
  IN  IF ~isLoggedIn(c)
      THEN [result |-> NoResult, err |-> ErrAuthentication, net |-> <<>>]
      ELSE start(NewRequest("GET",
                   Sprintf(concatFormat, <<c.instanceURL, nextRecordsURL>>)))

\* makeURL also cutting the trailing slashes of the instance endpoint, in
\* place.
makeURLTrimsInstance(c, req) ==
  LET build(apiVersion, instanceURL) ==
        [client |-> [c EXCEPT !.apiVersion = apiVersion,
                              !.instanceURL = instanceURL],
         url |-> Sprintf(makeURLFormat, <<instanceURL, apiVersion, req>>)]
  IN  build(Replace(c.apiVersion, <<"v">>, <<>>),
            TrimRight(c.instanceURL, "/"))

\* makeURL: strips every v from the Client's API version, in place, and
\* builds the data-API URL of req.
makeURL(c, req) ==
  LET build(apiVersion) ==
        [client |-> [c EXCEPT !.apiVersion = apiVersion],
         url |-> Sprintf(makeURLFormat, <<c.instanceURL, apiVersion, req>>)]
  IN  build(Replace(c.apiVersion, <<"v">>, <<>>))

\* SObject.Create: POSTs the record to the sobjects endpoint of its type
\* through httpRequest and stores the id of the answer in the record; nil
\* when the request fails or the answer does not decode.
Create(c, obj, answer) ==
  LET finish(second, r) ==
        IF r.err # Nil \/ r.data.t # "jsonObject"
        THEN [obj |-> NoObject, client |-> second, net |-> r.net]
        ELSE [obj |-> [obj EXCEPT !.fields =
                         [k \in DOMAIN obj.fields \cup {"Id"} |->
                            IF k = "Id" THEN JString(r.data.id)
                            ELSE obj.fields[k]]],
              client |-> second, net |-> r.net]
      post(made) ==
        finish(made.client, httpRequest(made.client, "POST", made.url, answer))
  IN  post(makeURL(c, createPath))

\* The follow-up of an upload giving up the created id when the query
\* fails.
uploadResolveDropsID(second, contentVersionID, net, qr) ==
  IF qr.err # Nil \/ Len(qr.result.Records) = 0
  THEN [contentVersionID |-> <<>>,
        contentDocumentID |-> <<>>,
        err |-> ErrorString("file uploaded, but failed to retrieve ContentDocumentId: %w",
                            qr.err),
        net |-> net \o qr.net, client |-> second]
  ELSE [contentVersionID |-> contentVersionID,
        contentDocumentID |->
          StringField(qr.result.Records[1], "ContentDocumentId"),
        err |-> Nil, net |-> net \o qr.net, client |-> second]

\* UploadFileToContentVersion from the follow-up query's return on.
uploadResolve(second, contentVersionID, net, qr) ==
  IF qr.err # Nil \/ Len(qr.result.Records) = 0
  THEN [contentVersionID |-> contentVersionID,
        contentDocumentID |-> <<>>,
        err |-> ErrorString("file uploaded, but failed to retrieve ContentDocumentId: %w",
                            qr.err),
        net |-> net \o qr.net, client |-> second]
  ELSE [contentVersionID |-> contentVersionID,
        contentDocumentID |->
          StringField(qr.result.Records[1], "ContentDocumentId"),
        err |-> Nil, net |-> net \o qr.net, client |-> second]

\* UploadFileToContentVersion from Create's return on.
uploadCreated(result, queryAnswer) ==
  LET follow(second, contentVersionID, net) ==
        uploadResolve(second, contentVersionID, net,
                      Query(second,
                            Sprintf(contentDocumentQueryFormat,
                                    <<contentVersionID>>),
                            queryAnswer))
  IN  IF result.obj = NoObject \/ ID(result.obj) = <<>>
      THEN [contentVersionID |-> <<>>, contentDocumentID |-> <<>>,
            err |-> ErrorString("failed to create ContentVersion", Nil),
            net |-> result.net, client |-> result.client]
      ELSE follow(result.client, ID(result.obj), result.net)

UploadFileToContentVersion(c, readOK, parentRecordID, createAnswer, queryAnswer) ==
  IF ~readOK
  THEN [contentVersionID |-> <<>>, contentDocumentID |-> <<>>,
        err |-> ErrorString("failed to read file: %w",
                            FileError("os.ReadFile")),
        net |-> <<>>, client |-> c]
  ELSE uploadCreated(
         Create(c,
                [fields |->
                   [type |-> JString(<<"C", "V">>),
                    FirstPublishLocationId |-> JString(parentRecordID)],
                 client |-> ClientRef],
                createAnswer),
         queryAnswer)

\* download creating the destination before it tests the status.
downloadCreatesFirst(file, net, resp, createOK, writeOK) ==
  IF resp.t = "error"
  THEN [err |-> TransportError("do"), net |-> net, file |-> file]
  ELSE IF ~createOK
  THEN [err |-> FileError("os.Create"), net |-> net, file |-> file]
  ELSE IF resp.status < 200 \/ resp.status > 299
  THEN [err |-> ErrorString("ERROR: statuscode: %d, body: %s",
                            <<resp.status, ReadBody(resp)>>),
        net |-> net, file |-> "partial"]
  ELSE IF resp.broken
  THEN [err |-> TransportError("body"), net |-> net, file |-> "partial"]
  ELSE IF ~writeOK
  THEN [err |-> FileError("write"), net |-> net, file |-> "partial"]
  ELSE [err |-> Nil, net |-> net, file |-> "body"]

\* download from the return of Do on: file is the state of the destination
\* before the call; the file system lets os.Create succeed or not
\* (createOK) and the writes of io.Copy succeed or not (writeOK).
downloadRespond(file, net, resp, createOK, writeOK) ==
  IF resp.t = "error"
  THEN [err |-> TransportError("do"), net |-> net, file |-> file]
  ELSE IF resp.status < 200 \/ resp.status > 299
  THEN [err |-> ErrorString("ERROR: statuscode: %d, body: %s",
                            <<resp.status, ReadBody(resp)>>),
        net |-> net, file |-> file]
  ELSE IF ~createOK
  THEN [err |-> FileError("os.Create"), net |-> net, file |-> file]
  ELSE IF resp.broken
  THEN [err |-> TransportError("body"), net |-> net, file |-> "partial"]
  ELSE IF ~writeOK
  THEN [err |-> FileError("write"), net |-> net, file |-> "partial"]
  ELSE [err |-> Nil, net |-> net, file |-> "body"]

\* download: the error of http.NewRequest is dropped, so a request that
\* could not be made is nil, and adding a header to it panics.
download(c, apiPath, file, answer, createOK, writeOK) ==
  LET exchange(req, resp) ==
        downloadRespond(file, <<Exchange(req, resp)>>, resp, createOK,
                        writeOK)
      send(req) == exchange(req, Do(req, answer))
      start(made) ==
        IF made.err # Nil
        THEN [err |-> Panic, net |-> <<>>, file |-> file]
        ELSE send(WithHeader(made.req,
                    [ContentType |-> "application/json; charset=UTF-8",
                     Accept |-> "application/json",
                     Authorization |-> bearerPrefix \o c.sessionID]))
  IN  start(NewRequest("GET",
              Sprintf(concatFormat,
                      <<TrimRight(c.instanceURL, "/"), apiPath>>)))

DownloadFile(c, contentVersionID, file, answer, createOK, writeOK) ==
  download(c, Sprintf(versionDataFormat, <<c.apiVersion, contentVersionID>>),
           file, answer, createOK, writeOK)

DownloadAttachment(c, attachmentId, file, answer, createOK, writeOK) ==
  download(c, Sprintf(attachmentBodyFormat, <<c.apiVersion, attachmentId>>),
           file, answer, createOK, writeOK)

DownloadLegacyFile(c, attachmentID, file, answer, createOK, writeOK) ==
  download(c, Sprintf(attachmentBodyFormat, <<c.apiVersion, attachmentID>>),
           file, answer, createOK, writeOK)

\* DescribeGlobal: the status of the answer is logged and not tested; the
\* body is decoded whatever it is.
DescribeGlobal(c, answer) ==
  LET decode(respData, net) ==
        IF respData.t # "jsonObject"
        THEN [meta |-> NoResult, err |-> DecodeError, net |-> net]
        ELSE [meta |-> respData, err |-> Nil, net |-> net]
      respond(net, resp) ==
        IF resp.t = "error"
        THEN [meta |-> NoResult, err |-> TransportError("do"), net |-> net]
        ELSE decode(ReadBody(resp), net)
      exchange(req, resp) == respond(<<Exchange(req, resp)>>, resp)
      send(req) == exchange(req, Do(req, answer))
      start(made) ==
        IF made.err # Nil
        THEN [meta |-> NoResult, err |-> Panic, net |-> <<>>]
        ELSE send(WithHeader(made.req,
                    [ContentType |-> "application/json; charset=UTF-8",
                     Accept |-> "application/json",
                     Authorization |-> bearerPrefix \o c.sessionID]))
  IN  start(NewRequest("GET",
              Sprintf(concatFormat,
                      <<TrimRight(c.baseURL, "/"),
                        Sprintf(sobjectsFormat, <<c.apiVersion>>)>>)))

(***************************************************************************)
(* The program: one caller that constructs a Client and then calls its     *)
(* operations one at a time.  ret is what the last call returned and did,  *)
(* fs the state of the download destination: "absent", "prior" (it holds   *)
(* what it held before any download), "partial" (created or truncated,     *)
(* and not all of a body written) or "body" (a whole response body).       *)
(***************************************************************************)
Idle == [op |-> "idle"]

\* The arguments the caller picks from.
Queries == {soqlCase, soqlLike, queryWord, nextRecordsPath, nearPrefix, <<>>}

Tokens == {<<>>, sidC}

Locations == {instanceA, instanceSlash}

Methods == {"GET", "POST"}

\* What the local file system does to a download: all goes well, os.Create
\* fails, or a write of io.Copy fails.
Disks == {"ok", "no create", "no write"}

\* The caller sets the tooling flag through code outside force.go; a Client
\* is taken with either value.
Init ==
  /\ \E url \in {DefaultURL, DefaultURL \o <<"/">>}, tooling \in BOOLEAN :
       client = [NewClient(url, DefaultClientID, DefaultAPIVersion)
                   EXCEPT !.useToolingAPI = tooling]
  /\ fs \in {"absent", "prior"}
  /\ ret = Idle

CallSetSidLoc ==
  /\ ret = Idle
  /\ \E sid \in Tokens, loc \in Locations :
       /\ client' = SetSidLoc(client, sid, loc)
       /\ ret' = [op |-> "SetSidLoc", sid |-> sid, loc |-> loc]
  /\ UNCHANGED fs

\* What the caller holds after each call.
retLoginPassword(r) == [op |-> "LoginPassword", err |-> r.err, net |-> r.net]

retQuery(q, r) ==
  [op |-> "Query", q |-> q, result |-> r.result, err |-> r.err,
   net |-> r.net]

retQueryMore(nextRecordsURL, r) ==
  [op |-> "QueryMore", nextRecordsURL |-> nextRecordsURL,
   result |-> r.result, err |-> r.err, net |-> r.net]

retApexREST(method, path, r) ==
  [op |-> "ApexREST", method |-> method, path |-> path, data |-> r.data,
   err |-> r.err, net |-> r.net]

retUpload(readOK, r) ==
  [op |-> "UploadFileToContentVersion", readOK |-> readOK,
   contentVersionID |-> r.contentVersionID,
   contentDocumentID |-> r.contentDocumentID, err |-> r.err, net |-> r.net]

retDownload(op, r) == [op |-> op, err |-> r.err, net |-> r.net]

retDescribeGlobal(r) ==
  [op |-> "DescribeGlobal", meta |-> r.meta, err |-> r.err, net |-> r.net]

CallLoginPassword ==
  /\ ret = Idle
  /\ \E answer \in Answers :
       LET done(r) == client' = r.client /\ ret' = retLoginPassword(r)
       IN  done(LoginPassword(client, answer))
  /\ UNCHANGED fs

CallQuery ==
  /\ ret = Idle
  /\ \E q \in Queries, answer \in Answers :
       ret' = retQuery(q, Query(client, q, answer))
  /\ UNCHANGED <<client, fs>>

CallQueryMore ==
  /\ ret = Idle
  /\ \E answer \in Answers :
       ret' = retQueryMore(nextRecordsPath,
                           QueryMore(client, nextRecordsPath, answer))
  /\ UNCHANGED <<client, fs>>

CallApexREST ==
  /\ ret = Idle
  /\ \E method \in Methods, answer \in Answers :
       ret' = retApexREST(method, apexPath,
                          ApexREST(client, method, apexPath, answer))
  /\ UNCHANGED <<client, fs>>

\* The answers the follow-up query of an upload can get: any, when the
\* upload gets as far as sending that query.
FollowUpAnswers(c, readOK, createAnswer) ==
  IF Len(UploadFileToContentVersion(c, readOK, parent001, createAnswer,
                                    [t |-> "error"]).net) = 2
  THEN Answers
  ELSE {[t |-> "error"]}

CallUploadFileToContentVersion ==
  /\ ret = Idle
  /\ \E readOK \in BOOLEAN, createAnswer \in Answers :
       \E queryAnswer \in FollowUpAnswers(client, readOK, createAnswer) :
         LET done(r) == client' = r.client /\ ret' = retUpload(readOK, r)
         IN  done(UploadFileToContentVersion(client, readOK, parent001,
                                             createAnswer, queryAnswer))
  /\ UNCHANGED fs

CallDownloadFile ==
  /\ ret = Idle
  /\ \E answer \in Answers, disk \in Disks :
       LET done(r) == fs' = r.file /\ ret' = retDownload("DownloadFile", r)
       IN  done(DownloadFile(client, versionId, fs, answer,
                             disk # "no create", disk # "no write"))
  /\ UNCHANGED client

CallDownloadAttachment ==
  /\ ret = Idle
  /\ \E answer \in Answers, disk \in Disks :
       LET done(r) ==
             fs' = r.file /\ ret' = retDownload("DownloadAttachment", r)
       IN  done(DownloadAttachment(client, attachment00P, fs, answer,
                                   disk # "no create", disk # "no write"))
  /\ UNCHANGED client

CallDownloadLegacyFile ==
  /\ ret = Idle
  /\ \E answer \in Answers, disk \in Disks :
       LET done(r) ==
             fs' = r.file /\ ret' = retDownload("DownloadLegacyFile", r)
       IN  done(DownloadLegacyFile(client, attachment00P, fs, answer,
                                   disk # "no create", disk # "no write"))
  /\ UNCHANGED client

CallDescribeGlobal ==
  /\ ret = Idle
  /\ \E answer \in Answers :
       ret' = retDescribeGlobal(DescribeGlobal(client, answer))
  /\ UNCHANGED <<client, fs>>

\* The call has returned and the caller goes on to its next statement.
Return ==
  /\ ret # Idle
  /\ ret' = Idle
  /\ UNCHANGED <<client, fs>>

Next ==
  \/ CallSetSidLoc
  \/ CallLoginPassword
  \/ CallQuery
  \/ CallQueryMore
  \/ CallApexREST
  \/ CallUploadFileToContentVersion
  \/ CallDownloadFile
  \/ CallDownloadAttachment
  \/ CallDownloadLegacyFile
  \/ CallDescribeGlobal
  \/ Return

Spec == Init /\ [][Next]_vars

(***************************************************************************)
(* Properties.  Each is stated over what the caller holds after a call     *)
(* (ret), the Client and the file the call left behind, and the round      *)
(* trips the network saw.                                                  *)
(***************************************************************************)
AuthenticatedOps ==
  {"Query", "QueryMore", "ApexREST", "DownloadFile", "DownloadAttachment",
   "DownloadLegacyFile", "DescribeGlobal"}

Downloads == {"DownloadFile", "DownloadAttachment", "DownloadLegacyFile"}

\* The Authorization header that carries token as a Bearer credential.
Bearer(token) == <<"B", "e", "a", "r", "e", "r", " ">> \o token

\* The first (the only) round trip of the last call got a status back.
Answered == ret.net # <<>> /\ ret.net[1].resp.t = "response"

\* The characters that stand for themselves in an encoded query component.
Unreserved == Letter \cup Digit \cup {"-", "_", ".", "~"}

\* The characters the modelled strings hold besides letters and digits.
Punctuation ==
  {" ", "!", "%", "&", "'", "(", ")", "+", ",", "-", ".", "/", ":", "=",
   "?", "_", "~"}

HexValue(c) == (CHOOSE k \in 1..16 : upperhex[k] = c) - 1

\* Decoding of a query component: + is a space, %XX the byte XX.
RECURSIVE QueryUnescape(_)
QueryUnescape(e) ==
  IF e = <<>> THEN <<>>
  ELSE IF e[1] = "+" THEN <<" ">> \o QueryUnescape(Tail(e))
  ELSE IF e[1] = "%"
  THEN <<CHOOSE c \in Punctuation :
           Ord(c) = 16 * HexValue(e[2]) + HexValue(e[3])>>
       \o QueryUnescape(From(e, 4))
  ELSE <<e[1]>> \o QueryUnescape(Tail(e))

\* e is a well-formed encoded query component.
RECURSIVE Encoded(_)
Encoded(e) ==
  IF e = <<>> THEN TRUE
  ELSE IF e[1] = "%"
  THEN /\ Len(e) >= 3
       /\ \A i \in 2..3 : \E k \in 1..16 : upperhex[k] = e[i]
       /\ Encoded(From(e, 4))
  ELSE e[1] \in Unreserved \cup {"+"} /\ Encoded(Tail(e))

\* r, the outcome of a Query, QueryMore or ApexREST, was not turned away at
\* the gate, and each request it made carries token as Bearer credential
\* and is addressed under endpoint.
Admitted(r, token, endpoint) ==
  /\ r.err # ErrAuthentication
  /\ \A i \in DOMAIN r.net :
       /\ r.net[i].req.Header.Authorization = Bearer(token)
       /\ HasPrefix(r.net[i].req.url, endpoint)

\* Every Query, QueryMore and ApexREST the caller can issue on Client c,
\* whatever the remote system answers, is admitted with token and endpoint.
NextCallsAdmitted(c, token, endpoint) ==
  \A answer \in Answers :
    /\ \A q \in Queries : Admitted(Query(c, q, answer), token, endpoint)
    /\ Admitted(QueryMore(c, nextRecordsPath, answer), token, endpoint)
    /\ \A method \in Methods :
         Admitted(ApexREST(c, method, apexPath, answer), token, endpoint)

\* C1: on a Client whose session token is empty, each of Query, QueryMore,
\* ApexREST, DownloadFile, DownloadAttachment, DownloadLegacyFile and
\* DescribeGlobal returns the authentication-required error and makes no
\* network request.
C1_EveryOperationGated ==
  (ret.op \in AuthenticatedOps /\ client.sessionID = <<>>)
    => (ret.err = ErrAuthentication /\ ret.net = <<>>)

\* C2: whenever LoginPassword returns a nil error the Client's session
\* token is non-empty, it is the sessionId of the login response, and a
\* Query, QueryMore or ApexREST issued next is not rejected with the
\* authentication-required error and sends that token as Bearer credential.
C2_NilLoginAuthenticates ==
  (ret.op = "LoginPassword" /\ ret.err = Nil)
    => /\ isLoggedIn(client)
       /\ client.sessionID = ret.net[1].resp.body.sessionId
       /\ NextCallsAdmitted(client, ret.net[1].resp.body.sessionId, <<>>)

\* C3: a LoginPassword that fails (transport error, a status other than
\* 200, a response that is not parseable XML, or any other non-nil error)
\* returns a non-nil error and leaves the Client's session token, instance
\* endpoint and cached identity as they were; a Client unauthenticated
\* before the call is unauthenticated after it.
C3_FailedLoginKeepsSession ==
  [][ret'.op = "LoginPassword"
       => LET resp == ret'.net[1].resp
              failed ==
                \/ ret'.err # Nil
                \/ /\ ret'.net # <<>>
                   /\ \/ resp.t = "error"
                      \/ resp.status # 200
                      \/ resp.broken
                      \/ resp.body.t # "xml"
          IN  failed
                => /\ ret'.err # Nil
                   /\ client'.sessionID = client.sessionID
                   /\ client'.instanceURL = client.instanceURL
                   /\ client'.user = client.user
                   /\ (~isLoggedIn(client) => ~isLoggedIn(client'))]_vars

\* A login answered with a body that is not XML has failed on a Client that
\* an earlier login authenticated, and the token of that login is in place.
C3_Witness ==
  /\ ret.op = "LoginPassword"
  /\ ret.err = DecodeError
  /\ client.sessionID = sidA
  /\ client.user.id = userA

\* C4: in every QueryResult that Query or QueryMore returns without error,
\* the result holds each record of the answered page, and each record's
\* Client back-reference is the Client the call was made on.
C4_RecordsCarryClient ==
  (ret.op \in {"Query", "QueryMore"} /\ ret.err = Nil)
    => /\ Len(ret.result.Records) = Len(ret.net[1].resp.body.records)
       /\ \A idx \in DOMAIN ret.result.Records :
            /\ ret.result.Records[idx].client = ClientRef
            /\ ret.result.Records[idx].fields
                 = ret.net[1].resp.body.records[idx]

\* A QueryMore returned a page of two records or more.
C4_Witness ==
  /\ ret.op = "QueryMore"
  /\ ret.err = Nil
  /\ Len(ret.result.Records) >= 2

\* C5: Query on an authenticated Client asks for instanceURL + q, q as it
\* is, when q begins with "/services/data"; otherwise for
\* <instanceURL>/services/data/v<apiVersion>/query?q=<e>, with
\* /tooling/query in place of /query exactly when the tooling flag is set,
\* where e is a percent-encoding of q.  Each request it makes is a GET to
\* that URL, and it makes none only when the URL is not one a request can
\* be made of.
C5_QueryPicksURL ==
  (ret.op = "Query" /\ isLoggedIn(client))
    => LET u == queryURL(client, ret.q)
           base ==
             client.instanceURL
               \o <<"/", "s", "e", "r", "v", "i", "c", "e", "s", "/", "d",
                    "a", "t", "a", "/", "v">>
               \o client.apiVersion
               \o (IF client.useToolingAPI
                   THEN <<"/", "t", "o", "o", "l", "i", "n", "g">>
                   ELSE <<>>)
               \o <<"/", "q", "u", "e", "r", "y", "?", "q", "=">>
           e == From(u, Len(base) + 1)
       IN  /\ IF HasPrefix(ret.q, <<"/", "s", "e", "r", "v", "i", "c", "e",
                                    "s", "/", "d", "a", "t", "a">>)
              THEN u = client.instanceURL \o ret.q
              ELSE /\ HasPrefix(u, base)
                   /\ Encoded(e)
                   /\ QueryUnescape(e) = ret.q
           /\ Len(ret.net) <= 1
           /\ \A i \in DOMAIN ret.net :
                ret.net[i].req.method = "GET" /\ ret.net[i].req.url = u
           /\ ret.net = <<>> => ret.err = URLError /\ Parse(u).err

\* A SOQL string with characters to encode was sent by a Client that uses
\* the tooling API.
C5_Witness ==
  /\ ret.op = "Query"
  /\ ret.q = soqlLike
  /\ client.useToolingAPI
  /\ Answered

\* C6: for Query, QueryMore, ApexREST and the download helpers, an answer
\* with a status in [200,299] is not failed for its status, and an answer
\* with any other status makes the call return the error the Error Mapper
\* makes of the status and the body.
C6_NonSuccessIsMapped ==
  (ret.op \in {"Query", "QueryMore", "ApexREST"} \cup Downloads /\ Answered)
    => LET resp == ret.net[1].resp
       IN  IF resp.status >= 200 /\ resp.status <= 299
           THEN ret.err.kind \notin {"SalesforceError", "errorString"}
           ELSE ret.err = ParseSalesforceError(resp.status, ReadBody(resp))

\* C7 as first stated: a download that ends with a transport error or a
\* non-2xx status returns a non-nil error and leaves the destination file
\* as it was.
C7_FailedDownloadLeavesFile ==
  [][(/\ ret'.op \in Downloads
      /\ \/ ret'.err.kind = "transport"
         \/ /\ ret'.net # <<>>
            /\ ret'.net[1].resp.t = "response"
            /\ (ret'.net[1].resp.status < 200
                  \/ ret'.net[1].resp.status > 299))
       => (ret'.err # Nil /\ fs' = fs)]_vars

\* C7: a download whose request fails in the transport before a status is
\* received, or that is answered with a non-2xx status, returns a non-nil
\* error and leaves the destination file as it was; the file is created or
\* truncated only in a download that has seen a 2xx status.
C7_NoStatusNoFile ==
  [][ret'.op \in Downloads
       => LET resp == ret'.net[1].resp
              success ==
                /\ ret'.net # <<>>
                /\ resp.t = "response"
                /\ resp.status >= 200
                /\ resp.status <= 299
          IN  /\ (ret'.net # <<>> /\ ~success)
                   => (ret'.err # Nil /\ fs' = fs)
              /\ fs' # fs => success]_vars

\* A download answered 401 has returned an error, and the destination
\* holds the body an earlier download wrote.
C7_Witness ==
  /\ ret.op = "DownloadLegacyFile"
  /\ Answered
  /\ ret.net[1].resp.status = 401
  /\ ret.err # Nil
  /\ fs = "body"

\* C8: UploadFileToContentVersion returns a non-nil error and two empty
\* identifiers, and makes no follow-up query, when the file cannot be read
\* or the Create gives no record or a record with an empty Id; when the
\* Create gave an Id and the follow-up query fails or returns no records,
\* it returns a non-nil error, that Id, and an empty document id.
C8_UploadFailures ==
  ret.op = "UploadFileToContentVersion"
    => LET good(i) ==
             /\ Len(ret.net) >= i
             /\ ret.net[i].resp.t = "response"
             /\ ret.net[i].resp.status >= 200
             /\ ret.net[i].resp.status <= 299
             /\ ~ret.net[i].resp.broken
             /\ ret.net[i].resp.body.t = "jsonObject"
           created == ret.readOK /\ good(1) /\ ret.net[1].resp.body.id # <<>>
           resolved == good(2) /\ ret.net[2].resp.body.records # <<>>
       IN  /\ ~created
                => /\ ret.err # Nil
                   /\ ret.contentVersionID = <<>>
                   /\ ret.contentDocumentID = <<>>
                   /\ Len(ret.net) <= 1
           /\ (created /\ ~resolved)
                => /\ ret.err # Nil
                   /\ ret.contentVersionID = ret.net[1].resp.body.id
                   /\ ret.contentDocumentID = <<>>

\* The Create gave an Id and the follow-up query was answered with a page
\* of no records.
C8_Witness ==
  /\ ret.op = "UploadFileToContentVersion"
  /\ ret.err # Nil
  /\ ret.contentVersionID = versionId
  /\ Len(ret.net) = 2
  /\ ret.net[2].resp.t = "response"
  /\ ret.net[2].resp.status = 200
  /\ ret.net[2].resp.body.t = "jsonObject"
  /\ ret.net[2].resp.body.records = <<>>

\* C9: whenever UploadFileToContentVersion returns a nil error, the
\* ContentVersion id and the ContentDocument id it returns are both
\* non-empty.
C9_NilUploadHasBothIDs ==
  (ret.op = "UploadFileToContentVersion" /\ ret.err = Nil)
    => (ret.contentVersionID # <<>> /\ ret.contentDocumentID # <<>>)

\* C10: after SetSidLoc(sid, loc), which makes no request, GetSid is sid
\* and GetLoc is loc; and when sid is non-empty, a Query, QueryMore or
\* ApexREST issued next is not turned away at the gate, sends sid as its
\* Bearer credential and addresses its request under loc.
C10_SetSidLocAuthenticates ==
  ret.op = "SetSidLoc"
    => /\ GetSid = ret.sid
       /\ GetLoc = ret.loc
       /\ ret.sid # <<>> => NextCallsAdmitted(client, ret.sid, ret.loc)

\* A token and an endpoint were injected into a Client that a login had
\* authenticated for another user on another endpoint.
C10_Witness ==
  /\ ret.op = "SetSidLoc"
  /\ ret.sid = sidC
  /\ ret.loc = instanceSlash
  /\ client.user.id = userB

\* C11: only LoginPassword returning nil and SetSidLoc write the session
\* state: a step of Query, QueryMore, ApexREST, UploadFileToContentVersion,
\* a download helper or DescribeGlobal, and a LoginPassword that returns an
\* error, leave the Client's session token, instance endpoint and cached
\* identity as they were, whatever the outcome of the call.
C11_OnlySessionManagerWrites ==
  [][(\/ client'.sessionID # client.sessionID
      \/ client'.instanceURL # client.instanceURL
      \/ client'.user # client.user)
       => (\/ ret'.op = "SetSidLoc"
           \/ ret'.op = "LoginPassword" /\ ret'.err = Nil)]_vars

\* An upload made both of its round trips, the Create through makeURL, on
\* a Client whose endpoint was injected with a trailing slash after a
\* login, and the token, the endpoint and the identity are in place.
C11_Witness ==
  /\ ret.op = "UploadFileToContentVersion"
  /\ Len(ret.net) = 2
  /\ client.sessionID = sidC
  /\ client.instanceURL = instanceSlash
  /\ client.user.id = userA

\* C12: after a LoginPassword that returns nil, the Client's instance
\* endpoint is <scheme>://<host> of the serverUrl of the login response,
\* whatever serverUrl the response carries, and the URL of every request a
\* Query, QueryMore or ApexREST makes next begins with it.
C12_EndpointIsSchemeAndHost ==
  (ret.op = "LoginPassword" /\ ret.err = Nil)
    => LET serverUrl == ret.net[1].resp.body.serverUrl
           builtOn(r) ==
             \A i \in DOMAIN r.net :
               HasPrefix(r.net[i].req.url, client.instanceURL)
       IN  /\ ~Parse(serverUrl).err
           /\ client.instanceURL
                = Parse(serverUrl).scheme \o <<":", "/", "/">>
                    \o Parse(serverUrl).host
           /\ \A answer \in Answers :
                /\ \A q \in Queries : builtOn(Query(client, q, answer))
                /\ builtOn(QueryMore(client, nextRecordsPath, answer))
                /\ \A method \in Methods :
                     builtOn(ApexREST(client, method, apexPath, answer))

\* C13: from a state in which the session token is non-empty, no step of
\* LoginPassword (nil or not), Query, QueryMore, ApexREST, an upload, a
\* download or DescribeGlobal leads to a state in which it is empty; only
\* SetSidLoc may empty it.
C13_StaysAuthenticated ==
  [][(isLoggedIn(client) /\ ret'.op # "SetSidLoc")
       => isLoggedIn(client')]_vars
====
